---- MODULE Spec2Model ----
(***************************************************************************)
(* Model of the GraphQL query editor component                             *)
(* (src/components/graphql/QueryEditor.vue) and of the Firestore access    *)
(* policy (src/firestore.rules).                                           *)
(*                                                                         *)
(* The editor is a single-threaded, event-driven component: every action   *)
(* below is one handler run to completion (a watcher, a key command, the   *)
(* widget's change listener, a timer callback, a theme callback).  The     *)
(* third-party collaborators (the ace widget, the graphql parser, printer  *)
(* and validator, the JavaScript timer table) are modelled by what they    *)
(* do on a small set of sample texts and schemas.                          *)
(***************************************************************************)
EXTENDS Integers, Sequences, FiniteSets, TLC

VARIABLES
    value,             \* prop `value` as last supplied by the host
    theme,             \* prop `theme` as last supplied by the host ("null": absent)
    initialized,       \* data.initialized
    buffer,            \* text held by the ace widget (editor.getValue())
    cacheValue,        \* data.cacheValue
    validationSchema,  \* data.validationSchema
    annotations,       \* diagnostics displayed by the widget (session annotations)
    timers,            \* JavaScript timer table: pending setTimeout entries
    inDebounce,        \* timer id remembered by the debounce closure (0: none yet)
    loading,           \* themes whose setTheme callback has not fired yet
    lastOp,            \* history: the handler that ran last
    out,               \* history: what the last handler emitted / called, in order
    lastInput,         \* history: payload of the most recent `input` event
    sinceTrigger,      \* history: time elapsed since parseContents was last called
    passes,            \* history: passes run since parseContents was last called
    burst,             \* history: parseContents calls of the current burst (capped)
    destroyed,         \* beforeDestroy has run: the widget is disposed
    req,               \* access policy: the request being evaluated
    decision,          \* access policy: the service's decision for req
    mounted2,          \* two editors on one page: the instances mounted
    buffer2,           \* two editors: each instance's buffer text
    annotations2,      \* two editors: each instance's displayed diagnostics
    timers2,           \* two editors: the timer table
    inDebounce2,       \* two editors: timer id remembered by the debounce closure
    dirty2             \* history: parseContents was called for the instance and
                       \* no pass has run for it since

vars == <<value, theme, initialized, buffer, cacheValue, validationSchema,
          annotations, timers, inDebounce, loading, lastOp, out, lastInput,
          sinceTrigger, passes, burst, destroyed, req, decision,
          mounted2, buffer2, annotations2, timers2, inDebounce2, dirty2>>

editorVars == <<value, theme, initialized, buffer, cacheValue, validationSchema,
                annotations, timers, inDebounce, loading, lastOp, out, lastInput,
                sinceTrigger, passes, burst, destroyed>>

policyVars == <<req, decision>>

twoVars == <<mounted2, buffer2, annotations2, timers2, inDebounce2, dirty2>>

(***************************************************************************)
(* Bounds and program constants                                            *)
(***************************************************************************)
\* delay handed to debounce(), in milliseconds
DelayMs == 2000

\* granularity of the model's clock, in milliseconds
TickMs == 1000

\* cap of the burst counter (history only)
MaxBurst == 2

\* timer ids the timer table hands out
TimerIds == 2

Min(a, b) == IF a < b THEN a ELSE b
Max(a, b) == IF a > b THEN a ELSE b

(***************************************************************************)
(* Sample texts, and the graphql library on them                           *)
(***************************************************************************)
Texts == {"", "{a}", "{a b}", "{\na"}

\* Two instances of the component on one page
Instances == {"A", "B"}

\* "null" is the absent prop: defineTheme() then takes the name from the
\* --editor-theme style property.
Themes == {"null", "twilight"}

\* "null" is the absent schema; SA declares the query field a and no
\* other; SBad is a schema object that fails graphql's schema validation.
Schemas == {"null", "SA", "SBad"}

SchemaFields(schema) == IF schema = "SA" THEN {"a"} ELSE {}

SchemaIsValid(schema) == schema # "SBad"

Field(n, l, c) == [name |-> n, line |-> l, column |-> c]

\* An error value as the catch block sees it: a GraphQLError built from a
\* source position carries `locations`; any other Error carries none.
LocatedError(l, c, m) ==
    [hasLocations |-> TRUE, line |-> l, column |-> c, message |-> m]

PlainError(m) ==
    [hasLocations |-> FALSE, line |-> 0, column |-> 0, message |-> m]

\* gql.parse: a document (the selected fields with their 1-based positions)
\* or a thrown syntax error with its 1-based first location.
GqlParse(text) ==
    CASE text = "{a}" ->
           [ok |-> TRUE, doc |-> <<Field("a", 1, 2)>>]
      [] text = "{a b}" ->
           [ok |-> TRUE, doc |-> <<Field("a", 1, 2), Field("b", 1, 4)>>]
      [] text = "{\na" ->
           [ok |-> FALSE,
            error |-> LocatedError(2, 2, "Syntax Error: Expected Name, found <EOF>.")]
      [] OTHER ->
           [ok |-> FALSE,
            error |-> LocatedError(1, 1, "Syntax Error: Unexpected <EOF>.")]

\* gql.print of a parsed document
GqlPrint(doc) ==
    IF Len(doc) = 1 THEN "{\n  a\n}\n" ELSE "{\n  a\n  b\n}\n"

FieldErrorMessage(name) ==
    IF name = "a" THEN "Cannot query field \"a\" on type \"Query\"."
    ELSE "Cannot query field \"b\" on type \"Query\"."

RECURSIVE FieldErrors(_, _)
FieldErrors(known, doc) ==
    IF doc = <<>> THEN <<>>
    ELSE LET f == Head(doc)
             rest == FieldErrors(known, Tail(doc))
         IN IF f.name \in known THEN rest
            ELSE <<LocatedError(f.line, f.column, FieldErrorMessage(f.name))>> \o rest

\* gql.validate: asserts the schema is valid (throwing an Error without
\* locations otherwise), then returns the validation errors in document order.
GqlValidate(schema, doc) ==
    IF SchemaIsValid(schema)
    THEN [threw |-> FALSE, errors |-> FieldErrors(SchemaFields(schema), doc),
          error |-> PlainError("")]
    ELSE [threw |-> TRUE, errors |-> <<>>,
          error |-> PlainError("Type Query must define one or more fields.")]

(***************************************************************************)
(* The validation pass: the function wrapped by debounce                   *)
(***************************************************************************)
Annotation(e) ==
    [row |-> e.line - 1, column |-> e.column - 1, text |-> e.message, type |-> "error"]

RECURSIVE MapAnnotations(_)
MapAnnotations(errors) ==
    IF errors = <<>> THEN <<>>
    ELSE <<Annotation(Head(errors))>> \o MapAnnotations(Tail(errors))

\* Result of a pass: the annotations displayed afterwards and whether the
\* pass threw out of the timer callback.
PassResult(ann, threw) == [annotations |-> ann, threw |-> threw]

\* Mutant: the catch block adds its diagnostic to the displayed ones.
CatchBlock_Merges(e, ann) ==
    IF e.hasLocations THEN [annotations |-> Append(ann, Annotation(e)), threw |-> FALSE]
    ELSE [annotations |-> ann, threw |-> TRUE]

\* catch (e) { setAnnotations([{ row: e.locations[0].line - 1, ... }]) }
\* e.locations[0] of an error without locations is a TypeError raised inside
\* the catch block: nothing is set and the TypeError leaves the pass.
CatchBlock(e, ann) ==
    IF e.hasLocations THEN PassResult(<<Annotation(e)>>, FALSE)
    ELSE PassResult(ann, TRUE)

\* try { doc = gql.parse(content); if (validationSchema) setAnnotations(...) }
TryBlock(content, schema, ann) ==
    LET p == GqlParse(content) IN
    IF ~p.ok THEN CatchBlock(p.error, ann)
    ELSE IF schema # "null"
         THEN LET v == GqlValidate(schema, p.doc) IN
              IF v.threw THEN CatchBlock(v.error, ann)
              ELSE PassResult(MapAnnotations(v.errors), FALSE)
         ELSE PassResult(ann, FALSE)

\* Mutant: a pass on the empty text leaves the diagnostics as they are.
ParseContentsBody_KeepsOnEmpty(content, schema, ann) ==
    IF content # "" THEN TryBlock(content, schema, ann)
    ELSE PassResult(ann, FALSE)

ParseContentsBody(content, schema, ann) ==
    IF content # "" THEN TryBlock(content, schema, ann)
    ELSE PassResult(<<>>, FALSE)

(***************************************************************************)
(* Handlers, written over a record of the state a handler may change       *)
(***************************************************************************)
Event(e, t) == [ev |-> e, text |-> t]

Ctx ==
    [buffer |-> buffer, cacheValue |-> cacheValue, timers |-> timers,
     inDebounce |-> inDebounce, out |-> <<>>, lastInput |-> lastInput,
     sinceTrigger |-> sinceTrigger, passes |-> passes, burst |-> burst]

Commit(s) ==
    /\ buffer' = s.buffer
    /\ cacheValue' = s.cacheValue
    /\ timers' = s.timers
    /\ inDebounce' = s.inDebounce
    /\ out' = s.out
    /\ lastInput' = s.lastInput
    /\ sinceTrigger' = s.sinceTrigger
    /\ passes' = s.passes
    /\ burst' = s.burst

\* The timer table never hands out an id that is still pending or that the
\* debounce closure still remembers.
FreshTimerId(s) ==
    CHOOSE i \in 1..TimerIds :
        /\ i # s.inDebounce
        /\ \A t \in s.timers : t.id # i

\* debounce(func, delay): clearTimeout(inDebounce); inDebounce =
\* setTimeout(() => func.apply(context, args), delay)
DebouncedCall(s, content) ==
    LET cleared == {t \in s.timers : t.id # s.inDebounce}
        id == FreshTimerId(s)
    IN [s EXCEPT !.timers = cleared \cup
                     {[id |-> id, content |-> content, left |-> DelayMs]},
                 !.inDebounce = id,
                 !.sinceTrigger = 0,
                 !.passes = 0,
                 !.burst = IF s.passes > 0 THEN 1 ELSE Min(@ + 1, MaxBurst)]

\* this.parseContents(content)
ParseContents(s, content) == DebouncedCall(s, content)

\* Mutant: the change listener does not update the cached value.
OnChange_NoCache(s) ==
    LET content == s.buffer
        emitted == [s EXCEPT !.out = Append(@, Event("input", content)),
                             !.lastInput = [emitted |-> TRUE, text |-> content]]
    IN DebouncedCall(emitted, content)

\* Mutant: the change listener schedules the pass for the cached text,
\* before the cache is updated.
OnChange_ParsesCache(s) ==
    LET content == s.buffer
        emitted == [s EXCEPT !.out = Append(@, Event("input", content)),
                             !.lastInput = [emitted |-> TRUE, text |-> content]]
        scheduled == DebouncedCall(emitted, s.cacheValue)
    IN [scheduled EXCEPT !.cacheValue = content]

\* Mutant: the change listener forgets to schedule a validation pass.
OnChange_NoReparse(s) ==
    LET content == s.buffer
    IN [s EXCEPT !.out = Append(@, Event("input", content)),
                 !.lastInput = [emitted |-> TRUE, text |-> content],
                 !.cacheValue = content]

\* editor.on("change", ...)
OnChange(s) ==
    LET content == s.buffer
        emitted == [s EXCEPT !.out = Append(@, Event("input", content)),
                             !.lastInput = [emitted |-> TRUE, text |-> content]]
        scheduled == ParseContents(emitted, content)
    IN [scheduled EXCEPT !.cacheValue = content]

\* The widget applies one delta to its document and signals `change`.
ApplyDelta(s, text) ==
    IF text = s.buffer THEN s
    ELSE OnChange([s EXCEPT !.buffer = text])

\* editor.session.setValue(text): ace's Document.setValue removes the whole
\* document, then inserts the text; an empty delta is not signalled.
SessionSetValue(s, text) ==
    LET called == [s EXCEPT !.out = Append(@, Event("setValue", text))]
        removed == ApplyDelta(called, "")
    IN ApplyDelta(removed, text)

\* Mutant: the watcher replaces the buffer without comparing to the cache.
WatchValueBody_NoGuard(s, v) ==
    [SessionSetValue(s, v) EXCEPT !.cacheValue = v]

\* watch.value body
WatchValueBody(s, v) ==
    IF v # s.cacheValue
    THEN [SessionSetValue(s, v) EXCEPT !.cacheValue = v]
    ELSE s

\* Mutant: the schema is installed without scheduling a validation pass.
SetValidationSchemaBody_NoReparse(s) == s

\* setValidationSchema: this.parseContents(this.cacheValue)
SetValidationSchemaBody(s) == ParseContents(s, s.cacheValue)

\* Mutant: reformat writes the pretty-printed text into the buffer itself.
PrettifyQueryBody_Rewrites(s) ==
    LET p == GqlParse(s.buffer) IN
    IF p.ok
    THEN ApplyDelta([s EXCEPT !.out = Append(@, Event("update-query", GqlPrint(p.doc)))],
                    GqlPrint(p.doc))
    ELSE [s EXCEPT !.out = Append(@, Event("toast", "error.gql_prettify_invalid_query"))]

\* prettifyQuery
PrettifyQueryBody(s) ==
    LET p == GqlParse(s.buffer) IN
    IF p.ok
    THEN [s EXCEPT !.out = Append(@, Event("update-query", GqlPrint(p.doc)))]
    ELSE [s EXCEPT !.out = Append(@, Event("toast", "error.gql_prettify_invalid_query"))]

\* Mutant: the submit command also schedules a validation pass.
RunGQLQueryBody_Reparses(s) ==
    DebouncedCall([s EXCEPT !.out = Append(@, Event("onRunGQLQuery", s.buffer))], s.buffer)

\* runGQLQuery command
RunGQLQueryBody(s) ==
    [s EXCEPT !.out = Append(@, Event("onRunGQLQuery", s.buffer))]

(***************************************************************************)
(* Access policy                                                           *)
(***************************************************************************)
Uids == {"null", "u1", "u2", "u3"}

Paths == {<<"users", "u1">>, <<"users", "u2">>, <<"users", "u3">>,
          <<"users", "u1", "notes", "n1">>, <<"teams", "t1">>, <<"users">>}

Methods == {"get", "list", "create", "update", "delete"}

Requests == [uid : Uids, path : Paths, method : Methods]

\* Mutant: `read` covers single-document reads only.
ReadMethods_GetOnly == {"get"}

ReadMethods == {"get", "list"}
WriteMethods == {"create", "update", "delete"}

\* match /{document=**}
MatchesAnyDocument(path) == Len(path) >= 1

\* match /users/{userId}
MatchesUserDocument(path) == Len(path) = 2 /\ path[1] = "users"

\* allow read, write: if request.auth.uid != null;
CatchAllAllows(r) ==
    /\ MatchesAnyDocument(r.path)
    /\ r.method \in ReadMethods \cup WriteMethods
    /\ r.uid # "null"

\* Mutant: create on a user document is allowed without authentication.
UserDocumentAllows_OpenCreate(r) ==
    /\ Len(r.path) = 2 /\ r.path[1] = "users"
    /\ \/ /\ r.method \in {"get", "list", "update", "delete"}
          /\ r.uid # "null"
          /\ r.uid = r.path[2]
       \/ r.method = "create"

\* allow read, update, delete: if request.auth.uid == userId;
\* allow create: if request.auth.uid != null;
UserDocumentAllows(r) ==
    /\ MatchesUserDocument(r.path)
    /\ \/ /\ r.method \in ReadMethods \cup {"update", "delete"}
          /\ r.uid # "null"
          /\ r.uid = r.path[2]
       \/ /\ r.method = "create"
          /\ r.uid # "null"

\* The service grants a request when any allow statement of any matching
\* match block grants it.
Evaluate(r) ==
    IF CatchAllAllows(r) \/ UserDocumentAllows(r) THEN "allow" ELSE "deny"

(***************************************************************************)
(* Initial state: the component after mounted() has run                    *)
(***************************************************************************)
NoInput == [emitted |-> FALSE, text |-> ""]

InitRequest == [uid |-> "null", path |-> <<"users">>, method |-> "get"]

Init ==
    /\ value \in Texts
    /\ initialized = FALSE
    /\ buffer = value
    /\ cacheValue = value
    /\ validationSchema = "null"
    /\ annotations = <<>>
    /\ timers = {[id |-> 1, content |-> value, left |-> DelayMs]}
    /\ inDebounce = 1
    /\ theme \in Themes
    /\ loading = {theme}
    /\ lastOp = "mounted"
    /\ out = <<>>
    /\ lastInput = NoInput
    /\ sinceTrigger = 0
    /\ passes = 0
    /\ burst = 1
    /\ destroyed = FALSE
    /\ req = InitRequest
    /\ decision = Evaluate(InitRequest)
    /\ mounted2 = {}
    /\ buffer2 = [i \in Instances |-> ""]
    /\ annotations2 = [i \in Instances |-> <<>>]
    /\ timers2 = {}
    /\ inDebounce2 = 0
    /\ dirty2 = [i \in Instances |-> FALSE]

(***************************************************************************)
(* Actions                                                                 *)
(***************************************************************************)
\* The user changes the text in the widget: one delta, one change signal.
Edit(t) ==
    /\ ~destroyed
    /\ t # buffer
    /\ Commit(ApplyDelta(Ctx, t))
    /\ lastOp' = "edit"
    /\ UNCHANGED <<value, initialized, validationSchema, annotations, theme, loading, req, decision, destroyed, twoVars>>

\* The host supplies a new `value`; the watcher runs.
WatchValue(v) ==
    /\ ~destroyed
    /\ v # value
    /\ value' = v
    /\ Commit(WatchValueBody(Ctx, v))
    /\ lastOp' = "watchValue"
    /\ UNCHANGED <<initialized, validationSchema, annotations, theme, loading, req, decision, destroyed, twoVars>>

\* The host supplies a different `theme`; the watcher runs.  When the
\* theme's module is already loaded the widget fires the callback inside
\* setTheme, and the $nextTick continuation has set the flag before the
\* next event; otherwise the callback fires once the module has loaded.
WatchTheme(th, loaded) ==
    /\ ~destroyed
    /\ th # theme
    /\ loaded => th \notin loading
    /\ theme' = th
    /\ IF loaded
       THEN initialized' = TRUE /\ loading' = loading
       ELSE initialized' = FALSE /\ loading' = loading \cup {th}
    /\ Commit(Ctx)
    /\ lastOp' = "watchTheme"
    /\ UNCHANGED <<value, validationSchema, annotations, req, decision, destroyed, twoVars>>

\* Mutant: the callback does not reveal the editor.
ThemeCallback_NoReveal(th) ==
    /\ th \in loading
    /\ loading' = loading \ {th}
    /\ initialized' = initialized
    /\ Commit(Ctx)
    /\ lastOp' = "themeCallback"
    /\ UNCHANGED <<value, theme, validationSchema, annotations, req, decision, destroyed, twoVars>>

\* A theme's module has loaded: the callbacks of the setTheme calls waiting
\* for it fire, and their $nextTick continuations run.
ThemeCallback(th) ==
    /\ th \in loading
    /\ loading' = loading \ {th}
    /\ initialized' = TRUE
    /\ Commit(Ctx)
    /\ lastOp' = "themeCallback"
    /\ UNCHANGED <<value, theme, validationSchema, annotations, req, decision, destroyed, twoVars>>

SetValidationSchema(schema) ==
    /\ ~destroyed
    /\ validationSchema' = schema
    /\ Commit(SetValidationSchemaBody(Ctx))
    /\ lastOp' = "setValidationSchema"
    /\ UNCHANGED <<value, initialized, annotations, theme, loading, req, decision, destroyed, twoVars>>

PrettifyQuery ==
    /\ ~destroyed
    /\ Commit(PrettifyQueryBody(Ctx))
    /\ lastOp' = "prettifyQuery"
    /\ UNCHANGED <<value, initialized, validationSchema, annotations, theme, loading, req, decision, destroyed, twoVars>>

RunGQLQuery ==
    /\ ~destroyed
    /\ Commit(RunGQLQueryBody(Ctx))
    /\ lastOp' = "runGQLQuery"
    /\ UNCHANGED <<value, initialized, validationSchema, annotations, theme, loading, req, decision, destroyed, twoVars>>

\* beforeDestroy: this.editor.destroy().  The widget is disposed and its
\* listeners are released; the component's watchers and commands are gone.
\* Nothing else is done: timers and theme callbacks stay as they are.
BeforeDestroy ==
    /\ ~destroyed
    /\ destroyed' = TRUE
    /\ Commit(Ctx)
    /\ lastOp' = "beforeDestroy"
    /\ UNCHANGED <<value, initialized, validationSchema, annotations, theme,
                   loading, req, decision, twoVars>>

\* Time passes while a timer is still counting down.
Tick ==
    /\ \E t \in timers : t.left > 0
    /\ timers' = {[t EXCEPT !.left = Max(0, @ - TickMs)] : t \in timers}
    /\ sinceTrigger' = Min(sinceTrigger + TickMs, DelayMs)
    /\ lastOp' = "tick"
    /\ out' = <<>>
    /\ UNCHANGED <<value, initialized, buffer, cacheValue, validationSchema,
                   annotations, inDebounce, theme, loading, lastInput, passes, burst,
                   req, decision, destroyed, twoVars>>

\* An expired timer's callback runs the pass with the arguments of the call
\* that scheduled it.
TimerFire ==
    \E t \in timers :
        /\ t.left = 0
        /\ LET r == ParseContentsBody(t.content, validationSchema, annotations) IN
           /\ annotations' = r.annotations
           /\ out' = IF r.threw THEN <<Event("uncaught", "TypeError")>> ELSE <<>>
        /\ timers' = timers \ {t}
        /\ passes' = passes + 1
        /\ lastOp' = "pass"
        /\ UNCHANGED <<value, initialized, buffer, cacheValue, validationSchema,
                       inDebounce, theme, loading, lastInput, sinceTrigger, burst,
                       req, decision, destroyed, twoVars>>

Next ==
    \/ \E t \in Texts : Edit(t)
    \/ \E v \in Texts : WatchValue(v)
    \/ \E th \in Themes, loaded \in BOOLEAN : WatchTheme(th, loaded)
    \/ \E th \in Themes : ThemeCallback(th)
    \/ \E schema \in Schemas : SetValidationSchema(schema)
    \/ PrettifyQuery
    \/ RunGQLQuery
    \/ BeforeDestroy
    \/ Tick
    \/ TimerFire

Spec == Init /\ [][Next]_vars

\* The widget fires the callback of every theme swap it was asked for.
LiveSpec == Init /\ [][Next]_vars /\ \A th \in Themes : WF_vars(ThemeCallback(th))

\* The access policy on its own: the service evaluates one request after
\* another against the static ruleset.
PolicyInit ==
    /\ Init
    /\ value = ""
    /\ theme = "null"

PolicyRequest(r) ==
    /\ req' = r
    /\ decision' = Evaluate(r)
    /\ UNCHANGED <<editorVars, twoVars>>

PolicyNext == \E r \in Requests : PolicyRequest(r)

PolicySpec == PolicyInit /\ [][PolicyNext]_vars

(***************************************************************************)
(* Two instances of the component.  `methods.parseContents` is built by    *)
(* one debounce(...) call when the component is defined, so every instance *)
(* calls the same debounced function: one closure, one remembered timer.   *)
(***************************************************************************)
Call2(i, text) == [this |-> i, content |-> text]

Ctx2 ==
    [timers |-> timers2, inDebounce |-> inDebounce2,
     sinceTrigger |-> 0, passes |-> 0, burst |-> 0]

\* this.parseContents(content) called on instance i
ParseContents2(i, text) ==
    LET s == DebouncedCall(Ctx2, Call2(i, text)) IN
    /\ timers2' = s.timers
    /\ inDebounce2' = s.inDebounce
    /\ dirty2' = [dirty2 EXCEPT ![i] = TRUE]

\* mounted() of instance i with prop value v
Mount2(i, v) ==
    /\ i \notin mounted2
    /\ mounted2' = mounted2 \cup {i}
    /\ buffer2' = [buffer2 EXCEPT ![i] = v]
    /\ ParseContents2(i, v)
    /\ UNCHANGED <<annotations2, editorVars, policyVars>>

\* The user edits instance i: its change listener runs.
Edit2(i, t) ==
    /\ i \in mounted2
    /\ t # buffer2[i]
    /\ buffer2' = [buffer2 EXCEPT ![i] = t]
    /\ ParseContents2(i, t)
    /\ UNCHANGED <<mounted2, annotations2, editorVars, policyVars>>

Tick2 ==
    /\ \E t \in timers2 : t.left > 0
    /\ timers2' = {[t EXCEPT !.left = Max(0, @ - TickMs)] : t \in timers2}
    /\ UNCHANGED <<mounted2, buffer2, annotations2, inDebounce2, dirty2,
                   editorVars, policyVars>>

\* An expired timer's callback: func.apply(context, args) runs the pass on
\* the instance that made the call.
TimerFire2 ==
    \E t \in timers2 :
        /\ t.left = 0
        /\ LET i == t.content.this
               r == ParseContentsBody(t.content.content, "null", annotations2[i])
           IN /\ annotations2' = [annotations2 EXCEPT ![i] = r.annotations]
              /\ dirty2' = [dirty2 EXCEPT ![i] = FALSE]
        /\ timers2' = timers2 \ {t}
        /\ UNCHANGED <<mounted2, buffer2, inDebounce2, editorVars, policyVars>>

TwoNext ==
    \/ \E i \in Instances, v \in Texts : Mount2(i, v)
    \/ \E i \in Instances, t \in Texts : Edit2(i, t)
    \/ Tick2
    \/ TimerFire2

TwoSpec == PolicyInit /\ [][TwoNext]_vars

(***************************************************************************)
(* Properties                                                              *)
(***************************************************************************)
HasEvent(o, e) == \E i \in 1..Len(o) : o[i].ev = e

TheTimer(content) == [id |-> inDebounce, content |-> content, left |-> DelayMs]

\* C1: once a pass has run on a non-empty, syntactically valid buffer with
\* no schema installed, the displayed diagnostic list is empty.
C1_ValidTextNoSchemaShowsNothing ==
    (lastOp = "pass" /\ buffer # "" /\ GqlParse(buffer).ok /\ validationSchema = "null")
        => annotations = <<>>

\* C2: a read, update or delete on /users/{userId} by an authenticated
\* identity other than userId is denied.
C2_OtherUsersDocumentDenied ==
    ( /\ req.uid # "null"
      /\ MatchesUserDocument(req.path)
      /\ req.path[2] # req.uid
      /\ req.method \in ReadMethods \cup {"update", "delete"} )
        => decision = "deny"

\* C3 (as claimed): when setValidationSchema returns, the diagnostics are
\* those of the current buffer validated against the new schema.
C3_SchemaInstallRevalidatesAtOnce ==
    (lastOp = "setValidationSchema" /\ validationSchema # "null"
        /\ SchemaIsValid(validationSchema))
        => annotations = ParseContentsBody(buffer, validationSchema, <<>>).annotations

\* C3 (amended): setValidationSchema installs the schema, leaves the
\* diagnostics as they are and leaves exactly one pass pending, for the
\* cached text, with the full debounce delay ahead of it.
C3_SchemaInstallSchedulesPass ==
    [][lastOp' = "setValidationSchema"
        => /\ annotations' = annotations
           /\ timers' = {[id |-> inDebounce', content |-> cacheValue, left |-> DelayMs]}]_vars

C3_Witness ==
    /\ lastOp = "setValidationSchema"
    /\ validationSchema = "SA"
    /\ buffer = "{a b}"
    /\ annotations = <<>>
    /\ timers = {TheTimer(buffer)}

\* C4: the watcher of `value` replaces the buffer exactly when the new value
\* differs from the cached value; a value equal to the last emitted `input`
\* payload replaces nothing and emits nothing.
C4_ValueSyncGuard ==
    [][lastOp' = "watchValue"
        => /\ HasEvent(out', "setValue") <=> (value' # cacheValue)
           /\ (lastInput.emitted /\ value' = lastInput.text)
                => (out' = <<>> /\ buffer' = buffer)]_vars

C4_Witness ==
    /\ lastOp = "watchValue"
    /\ lastInput.emitted
    /\ value = lastInput.text
    /\ out = <<>>

\* C5: while the callback of a started theme swap has not fired, the
\* `initialized` flag is false.
C5_HiddenWhileSwapInFlight == loading # {} => ~initialized

\* C6: at most one pass is pending; every triggering event leaves one pass
\* pending with the full delay ahead; a pass runs only once the full delay
\* has elapsed since the last triggering event; and each burst of
\* triggering events is answered by exactly one pass (pending, or run once).
C6_TrailingEdgeDebounce ==
    /\ Cardinality(timers) <= 1
    /\ ( \/ lastOp \in {"mounted", "edit", "setValidationSchema"}
         \/ (lastOp = "watchValue" /\ out # <<>>) )
           => timers = {TheTimer(buffer)}
    /\ lastOp = "pass" => sinceTrigger >= DelayMs
    /\ passes + Cardinality(timers) = 1

C6_Witness ==
    /\ lastOp = "pass"
    /\ burst >= 2
    /\ passes = 1
    /\ timers = {}

\* C7 (as claimed): after a pass on a syntactically invalid buffer, the
\* empty text included, exactly one error diagnostic is displayed, at the
\* parser's first error location converted to 0-based.
C7_InvalidTextSingleDiagnostic ==
    (lastOp = "pass" /\ ~GqlParse(buffer).ok)
        => LET e == GqlParse(buffer).error IN
           annotations = <<[row |-> e.line - 1, column |-> e.column - 1,
                            text |-> e.message, type |-> "error"]>>

\* C7 (amended): after a pass on a non-empty syntactically invalid buffer,
\* with or without a schema, exactly one error diagnostic is displayed, at
\* the parser's first error location converted to 0-based, with the parse
\* error's message.
C7_NonEmptyInvalidTextSingleDiagnostic ==
    (lastOp = "pass" /\ buffer # "" /\ ~GqlParse(buffer).ok)
        => LET e == GqlParse(buffer).error IN
           annotations = <<[row |-> e.line - 1, column |-> e.column - 1,
                            text |-> e.message, type |-> "error"]>>

C7_Witness ==
    /\ lastOp = "pass"
    /\ buffer = "{\na"
    /\ validationSchema = "SA"
    /\ annotations = <<[row |-> 1, column |-> 1,
                        text |-> "Syntax Error: Expected Name, found <EOF>.",
                        type |-> "error"]>>

\* C8: after a pass on a buffer that parses, with a schema installed, the
\* diagnostics are exactly the validator's errors, in order, each at its
\* first location converted to 0-based (none when it reports no error).
C8_ValidationErrorsReplaceDiagnostics ==
    (lastOp = "pass" /\ GqlParse(buffer).ok /\ validationSchema # "null")
        => LET v == GqlValidate(validationSchema, GqlParse(buffer).doc) IN
           /\ Len(annotations) = Len(v.errors)
           /\ \A i \in 1..Len(v.errors) :
                annotations[i] = [row |-> v.errors[i].line - 1,
                                  column |-> v.errors[i].column - 1,
                                  text |-> v.errors[i].message, type |-> "error"]

\* C9: no validation pass throws out of its timer callback.
C9_PassNeverThrows == ~HasEvent(out, "uncaught")

\* C10: reformat leaves the buffer, the cached value, the diagnostics and
\* the pending timer alone; it emits one `update-query` with the printed
\* text when the buffer parses, and raises one notification otherwise.
C10_ReformatFrame ==
    [][lastOp' = "prettifyQuery"
        => /\ buffer' = buffer
           /\ cacheValue' = cacheValue
           /\ annotations' = annotations
           /\ timers' = timers
           /\ out' = IF GqlParse(buffer).ok
                     THEN <<Event("update-query", GqlPrint(GqlParse(buffer).doc))>>
                     ELSE <<Event("toast", "error.gql_prettify_invalid_query")>>]_vars

C10_Witness ==
    /\ lastOp = "prettifyQuery"
    /\ out = <<Event("update-query", "{\n  a\n}\n")>>
    /\ annotations # <<>>
    /\ timers # {}

InputEvents(o) == SelectSeq(o, LAMBDA e : e.ev = "input")

\* C11: every step that changes the buffer emits exactly one
\* `input` event, carrying the buffer text after the change; a step that
\* leaves the buffer alone emits none.
C11_OneInputPerChange ==
    [][InputEvents(out') =
         IF buffer' # buffer THEN <<Event("input", buffer')>> ELSE <<>>]_vars

\* C12: every request of an unauthenticated identity is denied, whatever
\* the path and the operation.
C12_UnauthenticatedDenied == req.uid = "null" => decision = "deny"

C12_Witness ==
    /\ req = [uid |-> "null", path |-> <<"users", "u1">>, method |-> "create"]
    /\ decision = "deny"

\* C13: an authenticated identity u may read, update and delete /users/u,
\* and may create /users/{userId} for every userId.
C13_OwnDocumentAndCreateAllowed ==
    ( /\ req.uid # "null"
      /\ Len(req.path) = 2
      /\ req.path[1] = "users"
      /\ \/ req.method = "create"
         \/ (req.method \in {"get", "list", "update", "delete"} /\ req.path[2] = req.uid) )
        => decision = "allow"

C13_Witness ==
    /\ req = [uid |-> "u1", path |-> <<"users", "u2">>, method |-> "create"]
    /\ decision = "allow"

\* C14: the submit command calls onRunGQLQuery exactly once, with the
\* buffer text of that moment, and leaves the buffer, the diagnostics and
\* the pending timer alone.
C14_SubmitFrame ==
    [][lastOp' = "runGQLQuery"
        => /\ out' = <<Event("onRunGQLQuery", buffer)>>
           /\ buffer' = buffer
           /\ annotations' = annotations
           /\ timers' = timers]_vars

C14_Witness ==
    /\ lastOp = "runGQLQuery"
    /\ lastInput.emitted
    /\ out = <<Event("onRunGQLQuery", "{a b}")>>
    /\ \E t \in timers : t.content = "{a b}" /\ t.left < DelayMs
    /\ annotations # <<>>

\* C15: between events the cached value equals the widget's buffer text.
C15_CacheMirrorsBuffer == cacheValue = buffer

C15_Witness ==
    /\ lastOp = "prettifyQuery"
    /\ lastInput.emitted
    /\ value # buffer
    /\ validationSchema # "null"
    /\ cacheValue = "{a}"
    /\ buffer = "{a}"

\* C16: a pass parses the buffer text of the moment its timer fires and
\* validates against the schema installed at that moment.
C16_PassUsesCurrentBufferAndSchema ==
    [][lastOp' = "pass"
        => /\ \E t \in timers : t.left = 0 /\ t.content = buffer
           /\ annotations' = ParseContentsBody(buffer, validationSchema, annotations).annotations
           /\ HasEvent(out', "uncaught") =
                ParseContentsBody(buffer, validationSchema, annotations).threw]_vars

C16_Witness ==
    /\ lastOp = "pass"
    /\ burst >= 2
    /\ lastInput.emitted
    /\ validationSchema = "SA"
    /\ buffer = "{a b}"
    /\ annotations = <<[row |-> 0, column |-> 3,
                        text |-> "Cannot query field \"b\" on type \"Query\".",
                        type |-> "error"]>>

\* C17: after a pass on an empty buffer the diagnostic list is empty,
\* whatever was displayed before and whatever schema is installed.
C17_EmptyBufferClearsDiagnostics ==
    [][(lastOp' = "pass" /\ buffer = "") => annotations' = <<>>]_vars

C17_Witness ==
    /\ lastOp = "pass"
    /\ buffer = ""
    /\ lastInput.emitted
    /\ validationSchema = "SBad"
    /\ annotations = <<>>

\* C18: when the widget fires every swap's callback, a hidden editor is
\* eventually revealed, and a revealed editor is hidden again only by a
\* change of the `theme` input.
C18_RevealLiveness ==
    /\ ~initialized ~> initialized
    /\ [][(initialized /\ ~initialized') => lastOp' = "watchTheme"]_vars

C18_Witness ==
    /\ lastOp = "themeCallback"
    /\ initialized
    /\ loading = {}
    /\ theme = "twilight"
    /\ lastInput.emitted

\* C20: the debounce timers of two mounted instances are independent: an
\* instance for which a pass was scheduled and has not run yet still has
\* its pass pending, whatever the other instance does.
C20_IndependentTimers ==
    \A i \in Instances :
        dirty2[i] => \E t \in timers2 : t.content.this = i

\* C19: once the component is destroyed, no validation pass runs.
C19_NoPassAfterDestroy == destroyed => lastOp # "pass"

====
